---- MODULE Spec2Model ----
(***************************************************************************)
(* A model of swiftSet.js: the Set class (a keyed table of unique items),  *)
(* the uid stack shared by the class-level set operations, and the         *)
(* frequency-table algorithm Set.process.                                  *)
(***************************************************************************)
EXTENDS Integers, Sequences, FiniteSets

VARIABLES
  hist,      \* this.hist: the entries of the set, in creation order
  hashFn,    \* the constructor's hashFn argument ("undefined" when not given)
  mutable,   \* the constructor's closure variable 'mutable'
  uidList,   \* the stack of key functions of the class-level operations
  uid,       \* the active key function of Set.process
  argA,      \* the array the set was constructed from / first operand
  argB,      \* the array handed to a set operation / second operand
  second,    \* a second Set object: an operand b or a clone of the set
  ret        \* the last call: its name, its arguments and what it returned

vars == <<hist, hashFn, mutable, uidList, uid, argA, argB, second, ret>>

----------------------------------------------------------------------------
(* Bounds *)

MaxLen == 2        \* longest operand array drawn from ArrayItems
MaxArgs == 2       \* most arguments of one add / remove call, longest b
MaxStack == 2      \* most key functions pushed above the identity

----------------------------------------------------------------------------
(* JavaScript values.  A value is a record: type is the [[Class]] name,    *)
(* num the numeric payload (a Number's value, a Boolean's 0/1, for an      *)
(* Object 1 iff it carries its own toString method returning this.id),     *)
(* str the text payload (a String's text, an Object's id field).           *)

Num(n) == [type |-> "Number", num |-> n, str |-> ""]
Str(s) == [type |-> "String", num |-> 0, str |-> s]
Bool(b) == [type |-> "Boolean", num |-> IF b THEN 1 ELSE 0, str |-> ""]
Obj(id, withToString) ==
  [type |-> "Object", num |-> IF withToString THEN 1 ELSE 0, str |-> id]
Undefined == [type |-> "Undefined", num |-> 0, str |-> ""]

\* The values the instance operations are exercised with.
Items == { Num(0), Num(1), Str("1"), Str(""), Obj("o1", TRUE) }

\* The values the operand arrays of the class-level operations hold.
ArrayItems == { Num(1), Str("1"), Num(2), Num(3) }

RECURSIVE SeqsUpTo(_, _)
SeqsUpTo(S, n) ==
  IF n = 0 THEN { <<>> }
  ELSE LET shorter == SeqsUpTo(S, n - 1)
       IN  shorter \cup { Append(s, x) : s \in shorter, x \in S }

\* The operand arrays of the examples in the comments of the class-level
\* operations: [1,1,2], [2,2,3], [2,3,3], [1,2,2], [1,2,3].
Examples ==
  { << Num(1), Num(1), Num(2) >>, << Num(2), Num(2), Num(3) >>,
    << Num(2), Num(3), Num(3) >>, << Num(1), Num(2), Num(2) >>,
    << Num(1), Num(2), Num(3) >> }

Arrays == SeqsUpTo(ArrayItems, MaxLen) \cup Examples
ArgLists == SeqsUpTo(Items, MaxArgs)

----------------------------------------------------------------------------
(* Conversions *)

\* Number to string, for the one-digit non-negative integers in use.
Digits == << "0", "1", "2", "3", "4", "5", "6" >>
NumStr(n) == Digits[n + 1]

\* new Wrapper(obj) around a Number or a String: the type tag names the
\* wrapped type, num and str hold the wrapped value (this.item).
Wrapper(obj) ==
  [type |-> IF obj.type = "Number" THEN "Wrapper(Number)"
            ELSE "Wrapper(String)",
   num |-> obj.num, str |-> obj.str]

\* isWrapped(obj): obj instanceof Wrapper.
isWrapped(v) == v.type \in { "Wrapper(Number)", "Wrapper(String)" }

\* this.item of a Wrapper.
ItemOf(w) ==
  [type |-> IF w.type = "Wrapper(Number)" THEN "Number" ELSE "String",
   num |-> w.num, str |-> w.str]

\* typeOf(obj): the [[Class]] name via Object.prototype.toString.
typeOf(v) == IF isWrapped(v) THEN "Object" ELSE v.type

\* encodeObjType(obj): index of the type name in the types list.
encodeObjType(v) ==
  CASE typeOf(v) = "Null" -> 0 [] typeOf(v) = "Undefined" -> 1
    [] typeOf(v) = "Array" -> 2 [] typeOf(v) = "Boolean" -> 3
    [] typeOf(v) = "Number" -> 4 [] typeOf(v) = "String" -> 5
    [] typeOf(v) = "Object" -> 6 [] OTHER -> 99

\* The string conversion of a value that is no Wrapper.
PlainToString(v) ==
  CASE v.type = "Number" -> NumStr(v.num)
    [] v.type = "String" -> v.str
    [] v.type = "Boolean" -> (IF v.num = 1 THEN "true" ELSE "false")
    [] v.type = "Object" -> (IF v.num = 1 THEN v.str ELSE "[object Object]")
    [] OTHER -> "undefined"

\* The Wrapper's toString with the type code left out.
wrapperToStringNoType(obj) == "(" \o PlainToString(obj) \o ")"

\* The default toString of a Wrapper: '(' + obj + ':' + encodeObjType(obj)
\* + ')'.
wrapperToString(obj) ==
  "(" \o PlainToString(obj) \o ":" \o NumStr(encodeObjType(obj)) \o ")"

\* ToPropertyKey(v): the string conversion applied by hist[key] and by +.
ToPropertyKey(v) ==
  IF isWrapped(v) THEN wrapperToString(ItemOf(v)) ELSE PlainToString(v)

\* ToBoolean(v): what `item && true || false` tests.
ToBoolean(v) ==
  CASE v.type = "Number" -> v.num # 0
    [] v.type = "String" -> v.str # ""
    [] v.type = "Boolean" -> v.num = 1
    [] typeOf(v) = "Object" -> TRUE
    [] OTHER -> FALSE

\* The key functions: "identity" is function() { return this; }, "byId" is
\* a caller's function() { return this.id; }.
UidFns == { "identity", "byId" }

CallUid(fn, v) ==
  IF fn = "identity" THEN v
  ELSE IF v.type = "Object" THEN Str(v.str) ELSE Undefined

\* The property key an item is filed under: hist[uid.call(item)].
KeyOf(fn, v) == ToPropertyKey(CallUid(fn, v))

\* this.uid of an instance constructed with hashFn.
ThisUid(hf) == IF hf = "undefined" THEN "identity" ELSE hf

----------------------------------------------------------------------------
(* The backing object: a sequence of entries in creation order. *)

Entry(k, v, f) == [key |-> k, item |-> v, freq |-> f]

Keys(h) == { h[i].key : i \in 1..Len(h) }
HasKey(h, k) == \E i \in 1..Len(h) : h[i].key = k
Get(h, k) == h[CHOOSE i \in 1..Len(h) : h[i].key = k]

\* for (key in hist): integer-like keys ascending, then the others in
\* creation order.
IsIndexKey(k) == \E n \in 0..(Len(Digits) - 1) : NumStr(n) = k

RECURSIVE IndexEntries(_, _)
IndexEntries(h, n) ==
  IF n >= Len(Digits) THEN <<>>
  ELSE SelectSeq(h, LAMBDA e : e.key = NumStr(n)) \o IndexEntries(h, n + 1)

ForIn(h) ==
  IndexEntries(h, 0) \o SelectSeq(h, LAMBDA e : ~IsIndexKey(e.key))

----------------------------------------------------------------------------
(* Set.prototype *)

\* addOne with a later item replacing the one stored under its key.
addOneReplaces(h, fn, arg) ==
  LET key == KeyOf(fn, arg)
  IN  IF ~HasKey(h, key) THEN Append(h, Entry(key, arg, 1))
      ELSE [i \in 1..Len(h) |->
              IF h[i].key = key THEN [h[i] EXCEPT !.item = arg] ELSE h[i]]

\* The body of add's forEach callback for one argument.
addOne(h, fn, arg) ==
  LET key == KeyOf(fn, arg)
  IN  IF ~HasKey(h, key) THEN Append(h, Entry(key, arg, 1)) ELSE h

\* add: function() { slice.call(arguments, 0).forEach(...) }
RECURSIVE add(_, _, _)
add(h, fn, args) ==
  IF args = <<>> THEN h
  ELSE add(addOne(h, fn, Head(args)), fn, Tail(args))

\* removeOne with the entry kept at count zero instead of deleted.
removeOneKeepsZero(h, fn, arg) ==
  LET key == KeyOf(fn, arg)
  IN  [i \in 1..Len(h) |->
         IF h[i].key = key THEN [h[i] EXCEPT !.freq = 0] ELSE h[i]]

\* The body of remove's forEach callback for one argument.
removeOne(h, fn, arg) ==
  LET key == KeyOf(fn, arg)
  IN  IF HasKey(h, key) THEN SelectSeq(h, LAMBDA e : e.key # key) ELSE h

\* remove: function() { slice.call(arguments, 0).forEach(...) }
RECURSIVE remove(_, _, _)
remove(h, fn, args) ==
  IF args = <<>> THEN h
  ELSE remove(removeOne(h, fn, Head(args)), fn, Tail(args))

\* clear: a fresh backing object, optionally filled from an array.
clear(fn, a) == add(<<>>, fn, a)

\* each(action): for (key in this.hist) calls action on the entry's item and
\* breaks when it answers a truthy value.  stopOn is the set of items for
\* which the action answers truthy; the result is the items the action was
\* called on, in order.
each(h, stopOn) ==
  LET forIn == ForIn(h)
      visit == [i \in 1..Len(forIn) |-> forIn[i].item]
      hits == { i \in DOMAIN visit : visit[i] \in stopOn }
  IN  IF hits = {} THEN visit
      ELSE SubSeq(visit, 1, CHOOSE i \in hits : \A k \in hits : i <= k)

\* items: map over each with the identity; the callback map hands to each
\* returns nothing, so every entry is visited.
items(h) == each(h, {})

\* has: hist[key] && hist[key].item, then `item && true || false`.
has(h, fn, item) ==
  LET key == KeyOf(fn, item)
  IN  HasKey(h, key) /\ ToBoolean(Get(h, key).item)

\* size: the length of items().
size(h) == Len(items(h))

\* new Set(a, hashFn): the backing object after the constructor's add.
NewSet(a, hf) == add(<<>>, ThisUid(hf), a)

\* The order Array.prototype.sort gives the strings key + ':' + code + ','
\* of keyify: by UTF-16 code unit, so that the empty key (which starts
\* with ':') follows the digits and precedes '[' and the letters.
SortOrder == << "(1:4)", "(1:5)" >> \o Digits \o
             << "", "[object Object]", "false", "o1", "o2", "true",
                "undefined" >>
KeyRank(k) == CHOOSE i \in 1..Len(SortOrder) : SortOrder[i] = k
TokenBefore(s, t) ==
  \/ KeyRank(s.key) < KeyRank(t.key)
  \/ s.key = t.key /\ s.code <= t.code

\* keys.sort(): insertion of each token at its place.
RECURSIVE sort(_)
sort(toks) ==
  IF toks = <<>> THEN <<>>
  ELSE LET t == Head(toks)
           rest == sort(Tail(toks))
       IN  SelectSeq(rest, LAMBDA s : TokenBefore(s, t) /\ s # t)
           \o <<t>> \o
           SelectSeq(rest, LAMBDA s : ~TokenBefore(s, t) \/ s = t)

\* keyify: the sorted key:type tokens of the items; the string is
\* '{' + the tokens joined by ',' + '}'.
keyify(h, fn) ==
  sort([i \in 1..Len(h) |->
          [key |-> KeyOf(fn, items(h)[i]), code |-> encodeObjType(items(h)[i])]])

----------------------------------------------------------------------------
(* The class-level operations *)

\* Set.pushUid on the pair (uidList, uid).
pushUid(st, method) == [list |-> Append(st.list, method), uid |-> method]

\* popUid assigning the bottom of the stack to uid.
popUidToBase(st) ==
  LET l == IF Len(st.list) > 1 THEN SubSeq(st.list, 1, Len(st.list) - 1)
           ELSE st.list
  IN  [list |-> l, uid |-> l[1]]

\* Set.popUid on the pair (uidList, uid).
popUid(st) ==
  LET l == IF Len(st.list) > 1 THEN SubSeq(st.list, 1, Len(st.list) - 1)
           ELSE st.list
  IN  [list |-> l, uid |-> l[Len(l)]]

\* The evaluators handed to Set.process by the set operations.
Evaluators == { "union", "intersection", "difference", "complement" }

\* evaluator with complement keeping freq < 3.
evaluatorComplementLoose(name, freq) ==
  CASE name = "union" -> TRUE
    [] name = "intersection" -> freq = 3
    [] name = "difference" -> freq < 3
    [] name = "complement" -> freq < 3

\* evaluator with union dropping the items only in b.
evaluatorUnionDropsB(name, freq) ==
  CASE name = "union" -> freq # 2
    [] name = "intersection" -> freq = 3
    [] name = "difference" -> freq < 3
    [] name = "complement" -> freq = 1

\* evaluator with intersection keeping freq >= 2.
evaluatorIntersectionLoose(name, freq) ==
  CASE name = "union" -> TRUE
    [] name = "intersection" -> freq >= 2
    [] name = "difference" -> freq < 3
    [] name = "complement" -> freq = 1

\* evaluator with difference keeping freq = 1 only.
evaluatorDifferenceOneSided(name, freq) ==
  CASE name = "union" -> TRUE
    [] name = "intersection" -> freq = 3
    [] name = "difference" -> freq = 1
    [] name = "complement" -> freq = 1

evaluator(name, freq) ==
  CASE name = "union" -> TRUE
    [] name = "intersection" -> freq = 3
    [] name = "difference" -> freq < 3
    [] name = "complement" -> freq = 1

\* a.forEach of Set.process: file each item of a with freq 1.
RECURSIVE insertA(_, _, _)
insertA(h, fn, a) ==
  IF a = <<>> THEN h
  ELSE LET ukey == KeyOf(fn, Head(a))
           h1 == IF ~HasKey(h, ukey)
                 THEN Append(h, Entry(ukey, Head(a), 1)) ELSE h
       IN  insertA(h1, fn, Tail(a))

\* mergeB without the freq = 3 mark of a key found in both.
RECURSIVE mergeBNoMark(_, _, _)
mergeBNoMark(h, fn, b) ==
  IF b = <<>> THEN h
  ELSE LET ukey == KeyOf(fn, Head(b))
           h1 == IF HasKey(h, ukey) THEN h
                 ELSE Append(h, Entry(ukey, Head(b), 2))
       IN  mergeBNoMark(h1, fn, Tail(b))

\* b.forEach of Set.process: merge b into the histogram.
RECURSIVE mergeB(_, _, _)
mergeB(h, fn, b) ==
  IF b = <<>> THEN h
  ELSE LET ukey == KeyOf(fn, Head(b))
           h1 == IF HasKey(h, ukey)
                 THEN [i \in 1..Len(h) |->
                         IF h[i].key = ukey /\ h[i].freq = 1
                         THEN [h[i] EXCEPT !.freq = 3] ELSE h[i]]
                 ELSE Append(h, Entry(ukey, Head(b), 2))
       IN  mergeB(h1, fn, Tail(b))

\* mergeB marking freq = 3 whatever the frequency found.
RECURSIVE mergeBMarkAny(_, _, _)
mergeBMarkAny(h, fn, b) ==
  IF b = <<>> THEN h
  ELSE LET ukey == KeyOf(fn, Head(b))
           h1 == IF HasKey(h, ukey)
                 THEN [i \in 1..Len(h) |->
                         IF h[i].key = ukey
                         THEN [h[i] EXCEPT !.freq = 3] ELSE h[i]]
                 ELSE Append(h, Entry(ukey, Head(b), 2))
       IN  mergeBMarkAny(h1, fn, Tail(b))

\* histogram with the freq = 3 mark also put on a key repeated within b.
histogramMarkAny(a, b, fn) == mergeBMarkAny(insertA(<<>>, fn, a), fn, b)

\* histogram with b merged without marking the keys found in both.
histogramNoMark(a, b, fn) == mergeBNoMark(insertA(<<>>, fn, a), fn, b)

\* The histogram Set.process builds from a and b under the active uid.
histogram(a, b, fn) == mergeB(insertA(<<>>, fn, a), fn, b)

\* Set.process(a, b, evaluator): the items the evaluator keeps, in for-in
\* order.
process(a, b, ev, fn) ==
  LET h == ForIn(histogram(a, b, fn))
      kept == SelectSeq(h, LAMBDA e : evaluator(ev, e.freq))
  IN  [i \in 1..Len(kept) |-> kept[i].item]

\* The min === 3 && max === 3 test of equals over a histogram.
RECURSIVE maxFreq(_, _)
maxFreq(h, max) ==
  IF h = <<>> THEN max
  ELSE maxFreq(Tail(h), IF Head(h).freq > max THEN Head(h).freq ELSE max)

Infinity == 1000000
RECURSIVE minFreq(_, _)
minFreq(h, min) ==
  IF h = <<>> THEN min
  ELSE minFreq(Tail(h), IF Head(h).freq < min THEN Head(h).freq ELSE min)

\* Set.equals(a, b)
equals(a, b, fn) ==
  LET h == ForIn(histogram(a, b, fn))
  IN  minFreq(h, Infinity) = 3 /\ maxFreq(h, 0) = 3

----------------------------------------------------------------------------
(* The instance's set operations: this.process of the constructor *)

\* this.process refilling the set whether it is mutable or not.
thisProcessAlwaysRefills(h, hf, mut, st, b, ev) ==
  LET st1 == IF hf # "undefined" THEN pushUid(st, hf) ELSE st
      result == process(items(h), b, ev, st1.uid)
      st2 == IF hf # "undefined" THEN popUid(st1) ELSE st1
  IN  [result |-> result, hist |-> clear(ThisUid(hf), result), st |-> st2]

\* this.process(b, evaluator): push the instance's hashFn, run Set.process
\* on this.items() and b, pop, and refill a mutable set from the result.
thisProcess(h, hf, mut, st, b, ev) ==
  LET st1 == IF hf # "undefined" THEN pushUid(st, hf) ELSE st
      result == process(items(h), b, ev, st1.uid)
      st2 == IF hf # "undefined" THEN popUid(st1) ELSE st1
  IN  [result |-> result,
       hist |-> IF mut THEN clear(ThisUid(hf), result) ELSE h,
       st |-> st2]

\* Set.prototype.equals: this.process(b) without evaluator returns the
\* histogram, which is no Array, so the set is never refilled.
thisEquals(h, hf, st, b) ==
  LET st1 == IF hf # "undefined" THEN pushUid(st, hf) ELSE st
      hh == ForIn(histogram(items(h), b, st1.uid))
      st2 == IF hf # "undefined" THEN popUid(st1) ELSE st1
  IN  [result |-> minFreq(hh, Infinity) = 3 /\ maxFreq(hh, 0) = 3,
       st |-> st2]

----------------------------------------------------------------------------
(* State machine *)

Ret(op, args, flag, out) ==
  [op |-> op, args |-> args, flag |-> flag, out |-> out]

\* A second Set object: its backing object, its hashFn, and how it was
\* made ("none" while there is none, "new" by the constructor, "clone").
SetObject(h, hf, made) == [hist |-> h, hashFn |-> hf, made |-> made]
NoSet == SetObject(<<>>, "undefined", "none")

\* clone constructing the new set without the hashFn.
cloneWithoutHashFn(h, hf) ==
  SetObject(NewSet(items(h), "undefined"), "undefined", "clone")

\* this.clone: new Set(this.items(), hashFn).
clone(h, hf) == SetObject(NewSet(items(h), hf), hf, "clone")

\* A set constructed without array and without hashFn or with the caller's
\* key function; the uid stack holds the identity function.
Init ==
  /\ hashFn \in { "undefined", "byId" }
  /\ hist = <<>>
  /\ mutable = FALSE
  /\ uidList = << "identity" >>
  /\ uid = "identity"
  /\ argA = <<>>
  /\ argB = <<>>
  /\ second = NoSet
  /\ ret = Ret("new", <<>>, FALSE, <<>>)

\* set.add(args...); returns the set.  ret.flag records whether the call
\* changed the backing object.
Add(args) ==
  /\ hist' = add(hist, ThisUid(hashFn), args)
  /\ ret' = Ret("add", <<>>, hist' # hist, <<>>)
  /\ UNCHANGED <<hashFn, mutable, uidList, uid, argA, argB, second>>

\* set.remove(args...); returns the set.
Remove(args) ==
  /\ hist' = remove(hist, ThisUid(hashFn), args)
  /\ ret' = Ret("remove", args, hist' # hist, <<>>)
  /\ UNCHANGED <<hashFn, mutable, uidList, uid, argA, argB, second>>

\* set.clear(a); returns the set.
Clear(a) ==
  /\ hist' = clear(ThisUid(hashFn), a)
  /\ ret' = Ret("clear", <<>>, hist' # hist, <<>>)
  /\ UNCHANGED <<hashFn, mutable, uidList, uid, argA, argB, second>>

\* set.has(item)
Has(item) ==
  /\ ret' = Ret("has", <<item>>, has(hist, ThisUid(hashFn), item), <<>>)
  /\ UNCHANGED <<hist, hashFn, mutable, uidList, uid, argA, argB, second>>

\* set.items()
ItemsOf ==
  /\ ret' = Ret("items", <<>>, FALSE, items(hist))
  /\ UNCHANGED <<hist, hashFn, mutable, uidList, uid, argA, argB, second>>

\* set.each(function(item) { return item === stop; }); returns the set.
Each(stop) ==
  /\ ret' = Ret("each", <<stop>>, TRUE, each(hist, {stop}))
  /\ UNCHANGED <<hist, hashFn, mutable, uidList, uid, argA, argB, second>>

Next ==
  \/ \E stop \in Items \cup {Undefined} : Each(stop)
  \/ \E args \in ArgLists : Add(args)
  \/ \E args \in ArgLists : Remove(args)
  \/ \E a \in ArgLists : Clear(a)
  \/ \E item \in Items : Has(item)
  \/ ItemsOf

Spec == Init /\ [][Next]_vars

----------------------------------------------------------------------------
(* Wrapped items: var wrap = wrapObj(); a set with the default key source  *)
(* is fed 1, "1", wrap(1) and wrap("1").                                   *)

\* wrapObj()(obj): new Wrapper(obj, undefined).
wrap(obj) == Wrapper(obj)

WrapItems == { Num(1), Str("1"), wrap(Num(1)), wrap(Str("1")) }
WrapArgLists == SeqsUpTo(WrapItems, MaxArgs)

InitWrap ==
  /\ hashFn = "undefined"
  /\ hist = <<>>
  /\ mutable = FALSE
  /\ uidList = << "identity" >>
  /\ uid = "identity"
  /\ argA = <<>>
  /\ argB = <<>>
  /\ second = NoSet
  /\ ret = Ret("new", <<>>, FALSE, <<>>)

NextWrap ==
  \/ \E args \in WrapArgLists : Add(args)
  \/ \E args \in WrapArgLists : Remove(args)
  \/ \E item \in WrapItems : Has(item)
  \/ ItemsOf

SpecWrap == InitWrap /\ [][NextWrap]_vars

----------------------------------------------------------------------------
(* The set operations on two arrays: a is the array the set is built      *)
(* from, b the operand.                                                    *)

InitOps ==
  /\ argA \in Arrays
  /\ argB \in Arrays
  /\ hashFn = "undefined"
  /\ hist = NewSet(argA, hashFn)
  /\ mutable = FALSE
  /\ uidList = << "identity" >>
  /\ uid = "identity"
  /\ second = NoSet
  /\ ret = Ret("new", <<>>, FALSE, <<>>)

\* Each behaviour is one call on freshly built operands (ret.op = "new"):
\* none of the calls below changes an operand or, the set not being
\* mutable, the set.

StaticName(ev) ==
  CASE ev = "union" -> "Set.union"
    [] ev = "intersection" -> "Set.intersection"
    [] ev = "difference" -> "Set.difference"
    [] ev = "complement" -> "Set.complement"

\* Set.union / Set.intersection / Set.difference / Set.complement (a, b)
SetOp(ev) ==
  /\ ret.op = "new"
  /\ ret' = Ret(StaticName(ev), <<>>, FALSE, process(argA, argB, ev, uid))
  /\ UNCHANGED <<hist, hashFn, mutable, uidList, uid, argA, argB, second>>

SetUnion == SetOp("union")
SetIntersection == SetOp("intersection")
SetDifference == SetOp("difference")
SetComplement == SetOp("complement")

\* Set.process(a, b) without an evaluator: returns the histogram.
SetProcess ==
  /\ ret.op = "new"
  /\ ret' = Ret("Set.process", <<>>, FALSE, histogram(argA, argB, uid))
  /\ UNCHANGED <<hist, hashFn, mutable, uidList, uid, argA, argB, second>>

\* Set.equals(a, b)
SetEquals ==
  /\ ret.op = "new"
  /\ ret' = Ret("Set.equals", <<>>, equals(argA, argB, uid), <<>>)
  /\ UNCHANGED <<hist, hashFn, mutable, uidList, uid, argA, argB, second>>

\* set.union(b) / set.intersection(b) / set.difference(b) / set.complement(b)
\* returns the array of results; ret.flag records whether the call changed
\* the items of the set.
ThisOp(ev, b) ==
  \E r \in { thisProcess(hist, hashFn, mutable,
                          [list |-> uidList, uid |-> uid], b, ev) } :
      /\ hist' = r.hist
      /\ uidList' = r.st.list
      /\ uid' = r.st.uid
      /\ ret' = Ret(ev, b, items(r.hist) # items(hist), r.result)
      /\ UNCHANGED <<hashFn, mutable, argA, argB, second>>

Union(b) == ThisOp("union", b)
Intersection(b) == ThisOp("intersection", b)
Difference(b) == ThisOp("difference", b)
Complement(b) == ThisOp("complement", b)

\* set.equals(b)
Equals(b) ==
  \E r \in { thisEquals(hist, hashFn, [list |-> uidList, uid |-> uid], b) } :
      /\ uidList' = r.st.list
      /\ uid' = r.st.uid
      /\ ret' = Ret("equals", b, r.result, <<>>)
      /\ UNCHANGED <<hist, hashFn, mutable, argA, argB, second>>

\* The operand of an instance operation: the array b, or a Set built from
\* it, which this.process replaces by b.items().
Operands == { argB, items(NewSet(argB, hashFn)) }

UnionCall == ret.op = "new" /\ \E b \in Operands : Union(b)
IntersectionCall == ret.op = "new" /\ \E b \in Operands : Intersection(b)
DifferenceCall == ret.op = "new" /\ \E b \in Operands : Difference(b)
ComplementCall == ret.op = "new" /\ \E b \in Operands : Complement(b)
EqualsCall == ret.op = "new" /\ \E b \in Operands : Equals(b)

NextOps ==
  \/ SetProcess
  \/ SetUnion
  \/ SetIntersection
  \/ SetDifference
  \/ SetComplement
  \/ SetEquals
  \/ UnionCall
  \/ IntersectionCall
  \/ DifferenceCall
  \/ ComplementCall
  \/ EqualsCall

SpecOps == InitOps /\ [][NextOps]_vars

----------------------------------------------------------------------------
(* The uid stack: callers push and pop key functions around their own     *)
(* class-level calls while a set, constructed with or without a key       *)
(* function, runs its instance operations.                                 *)

UidItems == { Obj("o1", FALSE), Obj("o2", FALSE) }
UidArrays == SeqsUpTo(UidItems, MaxLen)

InitUid ==
  /\ argA \in UidArrays
  /\ argB = <<>>
  /\ hashFn \in { "undefined", "byId" }
  /\ hist = NewSet(argA, hashFn)
  /\ mutable = FALSE
  /\ uidList = << "identity" >>
  /\ uid = "identity"
  /\ second = NoSet
  /\ ret = Ret("new", <<>>, FALSE, <<>>)

\* Set.pushUid(method); returns method.
PushUid(method) ==
  /\ Len(uidList) <= MaxStack
  /\ \E st \in { pushUid([list |-> uidList, uid |-> uid], method) } :
       /\ uidList' = st.list
       /\ uid' = st.uid
  /\ ret' = Ret("pushUid", <<>>, TRUE, <<>>)
  /\ UNCHANGED <<hist, hashFn, mutable, argA, argB, second>>

\* Set.popUid(); returns the popped method, or null (flag FALSE) when only
\* the identity is left.
PopUid ==
  /\ \E st \in { popUid([list |-> uidList, uid |-> uid]) } :
       /\ uidList' = st.list
       /\ uid' = st.uid
  /\ ret' = Ret("popUid", <<>>, Len(uidList) > 1, <<>>)
  /\ UNCHANGED <<hist, hashFn, mutable, argA, argB, second>>

NextUid ==
  \/ \E method \in UidFns : PushUid(method)
  \/ PopUid
  \/ \E b \in UidArrays : Union(b)
  \/ \E b \in UidArrays : Intersection(b)
  \/ \E b \in UidArrays : Difference(b)
  \/ \E b \in UidArrays : Complement(b)
  \/ \E b \in UidArrays : Equals(b)

SpecUid == InitUid /\ [][NextUid]_vars

----------------------------------------------------------------------------
(* The stored items: arrays of values of which 1 and "1" share a key are   *)
(* added to and removed from a set, and handed to Set.process.             *)

RepItems == { Num(0), Num(1), Str("1") }
RepArrays == SeqsUpTo(RepItems, MaxLen)

InitRep ==
  /\ hashFn = "undefined"
  /\ hist = <<>>
  /\ mutable = FALSE
  /\ uidList = << "identity" >>
  /\ uid = "identity"
  /\ argA = <<>>
  /\ argB = <<>>
  /\ second = NoSet
  /\ ret = Ret("new", <<>>, FALSE, <<>>)

\* set.addItems(a): this.add.apply(this, a); returns the set.
AddItems(a) ==
  /\ hist' = add(hist, ThisUid(hashFn), a)
  /\ ret' = Ret("addItems", a, hist' # hist, <<>>)
  /\ UNCHANGED <<hashFn, mutable, uidList, uid, argA, argB, second>>

\* set.removeItems(a): this.remove.apply(this, a); returns the set.
RemoveItems(a) ==
  /\ hist' = remove(hist, ThisUid(hashFn), a)
  /\ ret' = Ret("removeItems", a, hist' # hist, <<>>)
  /\ UNCHANGED <<hashFn, mutable, uidList, uid, argA, argB, second>>

\* Set.process(a, b) on two arrays, before the set is touched; returns the
\* histogram.
Process(a, b) ==
  /\ ret.op = "new"
  /\ ret' = Ret("Set.process", <<a, b>>, FALSE, histogram(a, b, uid))
  /\ UNCHANGED <<hist, hashFn, mutable, uidList, uid, argA, argB, second>>

NextRep ==
  \/ \E a \in RepArrays : AddItems(a)
  \/ \E a \in RepArrays : RemoveItems(a)
  \/ \E a, b \in RepArrays : Process(a, b)

SpecRep == InitRep /\ [][NextRep]_vars

----------------------------------------------------------------------------
(* Mutable sets: a set and a second Set, the argument b of its operations, *)
(* each built from an array; the set may be made mutable at any time.      *)

InitMut ==
  /\ hashFn = "undefined"
  /\ \E a, b \in RepArrays :
       /\ hist = NewSet(a, hashFn)
       /\ second = SetObject(NewSet(b, hashFn), hashFn, "new")
  /\ mutable = FALSE
  /\ uidList = << "identity" >>
  /\ uid = "identity"
  /\ argA = <<>>
  /\ argB = <<>>
  /\ ret = Ret("new", <<>>, FALSE, <<>>)

\* set.mutable(); returns the set.
Mutable ==
  /\ mutable' = TRUE
  /\ ret' = Ret("mutable", <<>>, FALSE, <<>>)
  /\ UNCHANGED <<hist, hashFn, uidList, uid, argA, argB, second>>

\* b instanceof Set: this.process replaces b by b.items().
SecondItems == items(second.hist)

NextMut ==
  \/ Mutable
  \/ Union(SecondItems)
  \/ Intersection(SecondItems)
  \/ Difference(SecondItems)
  \/ Complement(SecondItems)
  \/ Equals(SecondItems)

SpecMut == InitMut /\ [][NextMut]_vars

----------------------------------------------------------------------------
(* Clones: a set, constructed with or without a key function, is cloned    *)
(* at any time; items are then added to and removed from either set.       *)

CloneItems == { Num(1), Str("1"), Obj("o1", FALSE) }
CloneArgLists == SeqsUpTo(CloneItems, MaxArgs)

InitClone ==
  /\ hashFn \in { "undefined", "byId" }
  /\ hist = <<>>
  /\ mutable = FALSE
  /\ uidList = << "identity" >>
  /\ uid = "identity"
  /\ argA = <<>>
  /\ argB = <<>>
  /\ second = NoSet
  /\ ret = Ret("new", <<>>, FALSE, <<>>)

\* c = set.clone()
Clone ==
  /\ second' = clone(hist, hashFn)
  /\ ret' = Ret("clone", <<>>, FALSE, <<>>)
  /\ UNCHANGED <<hist, hashFn, mutable, uidList, uid, argA, argB>>

\* c.add(args...) on the clone; returns the clone.
CloneAdd(args) ==
  /\ second.made = "clone"
  /\ second' = [second EXCEPT
                  !.hist = add(second.hist, ThisUid(second.hashFn), args)]
  /\ ret' = Ret("clone.add", args, second' # second, <<>>)
  /\ UNCHANGED <<hist, hashFn, mutable, uidList, uid, argA, argB>>

\* c.remove(args...) on the clone; returns the clone.
CloneRemove(args) ==
  /\ second.made = "clone"
  /\ second' = [second EXCEPT
                  !.hist = remove(second.hist, ThisUid(second.hashFn), args)]
  /\ ret' = Ret("clone.remove", args, second' # second, <<>>)
  /\ UNCHANGED <<hist, hashFn, mutable, uidList, uid, argA, argB>>

\* c.clear(a) on the clone; returns the clone.
CloneClear(a) ==
  /\ second.made = "clone"
  /\ second' = [second EXCEPT !.hist = clear(ThisUid(second.hashFn), a)]
  /\ ret' = Ret("clone.clear", a, second' # second, <<>>)
  /\ UNCHANGED <<hist, hashFn, mutable, uidList, uid, argA, argB>>

NextClone ==
  \/ Clone
  \/ \E args \in CloneArgLists : Add(args)
  \/ \E args \in CloneArgLists : Remove(args)
  \/ \E a \in CloneArgLists : Clear(a)
  \/ \E args \in CloneArgLists : CloneAdd(args)
  \/ \E args \in CloneArgLists : CloneRemove(args)
  \/ \E a \in CloneArgLists : CloneClear(a)

SpecClone == InitClone /\ [][NextClone]_vars

----------------------------------------------------------------------------
(* Vocabulary of the properties *)

Range(s) == { s[i] : i \in 1..Len(s) }
KeySet(s, fn) == { KeyOf(fn, s[i]) : i \in 1..Len(s) }
OneItemPerKey(s, fn) ==
  \A i, j \in 1..Len(s) : KeyOf(fn, s[i]) = KeyOf(fn, s[j]) => i = j
Occurrences(s, fn, k) == Cardinality({ i \in 1..Len(s) : KeyOf(fn, s[i]) = k })
ThisKey(v) == KeyOf(ThisUid(hashFn), v)
FirstWithKey(s, fn, k) ==
  s[CHOOSE i \in 1..Len(s) :
      /\ KeyOf(fn, s[i]) = k
      /\ \A j \in 1..(i - 1) : KeyOf(fn, s[j]) # k]

----------------------------------------------------------------------------
(* Properties *)

\* C1: Set.equals(A, B) and a.equals(B) return true if and only if A and B
\* have the same set of distinct keys, empty sequences included.
C1_EqualsIffSameKeys ==
  /\ ret.op = "Set.equals" =>
       (ret.flag <=> KeySet(argA, uid) = KeySet(argB, uid))
  /\ ret.op = "equals" =>
       (ret.flag <=> KeySet(items(hist), uid) = KeySet(ret.args, uid))

\* C2: has(v) returns true if and only if the set holds an entry under the
\* key derived from v.
C2_HasIffEntry ==
  ret.op = "has" => (ret.flag <=> HasKey(hist, ThisKey(ret.args[1])))

\* C3: Set.complement(A, B) and a.complement(B) return items of A only, one
\* per distinct key, and their keys are exactly the keys of A that do not
\* occur in B.
C3_ComplementIsAMinusB ==
  /\ ret.op = "Set.complement" =>
       /\ Range(ret.out) \subseteq Range(argA)
       /\ OneItemPerKey(ret.out, uid)
       /\ KeySet(ret.out, uid) = KeySet(argA, uid) \ KeySet(argB, uid)
  /\ ret.op = "complement" =>
       /\ Range(ret.out) \subseteq Range(items(hist))
       /\ OneItemPerKey(ret.out, uid)
       /\ KeySet(ret.out, uid) =
            KeySet(items(hist), uid) \ KeySet(ret.args, uid)

\* A complement call that kept one item of A and dropped another because
\* its key occurs in B, with B holding a key that A lacks.
C3_Witness ==
  /\ ret.op = "Set.complement"
  /\ ret.out # <<>>
  /\ KeySet(argA, uid) \cap KeySet(argB, uid) # {}
  /\ KeySet(argB, uid) \ KeySet(argA, uid) # {}

IsScenario3 ==
  /\ ret.op = "Set.complement"
  /\ argA = << Num(1), Num(2), Num(2) >>
  /\ argB = << Num(2), Num(2), Num(3) >>

C5_AddIncrementsCount ==
  [][\A v \in Items :
       (Add(<<v>>) /\ HasKey(hist, ThisKey(v))) =>
         Get(hist', ThisKey(v)).freq = Get(hist, ThisKey(v)).freq + 1]_vars

\* C6: A.equals(B) is true exactly when A.keyify() and B.keyify() are the
\* same string.
C6_EqualsIffSameKeyify ==
  ret.op = "equals" =>
    (ret.flag <=> keyify(hist, ThisUid(hashFn)) =
                  keyify(NewSet(ret.args, hashFn), ThisUid(hashFn)))

\* C7: remove deletes the whole entry of every argument's key that is
\* present, is a no-op for an absent key, changes no other entry, and
\* removing the same values again changes nothing.
C7_RemoveDeletesOnce ==
  [][ret'.op = "remove" =>
       /\ hist' = SelectSeq(hist, LAMBDA e :
                             e.key \notin KeySet(ret'.args, ThisUid(hashFn)))
       /\ remove(hist', ThisUid(hashFn), ret'.args) = hist']_vars

\* A remove call that deleted an entry and left another one in place.
C7_Witness == ret.op = "remove" /\ ret.flag /\ hist # <<>>

\* C8 as claimed: Set.union(A, B) and Set.union(B, A) contain the same
\* items.
C8_UnionSameItems ==
  ret.op = "Set.union" =>
    Range(ret.out) = Range(process(argB, argA, "union", uid))

\* C8 as amended: Set.union(A, B) and Set.union(B, A) contain the same
\* keys, one item per key; the item of a key is the one of the first
\* operand that holds the key.
C8_UnionSameKeys ==
  ret.op = "Set.union" =>
    LET other == process(argB, argA, "union", uid)
    IN  /\ KeySet(ret.out, uid) = KeySet(other, uid)
        /\ OneItemPerKey(ret.out, uid) /\ OneItemPerKey(other, uid)
        /\ \A i \in 1..Len(ret.out) :
             IF KeyOf(uid, ret.out[i]) \in KeySet(argA, uid)
             THEN ret.out[i] \in Range(argA) ELSE ret.out[i] \in Range(argB)

\* A union of operands that hold distinct values under one key and a key
\* each that the other lacks.
C8_Witness ==
  /\ ret.op = "Set.union"
  /\ Range(ret.out) # Range(process(argB, argA, "union", uid))
  /\ KeySet(argA, uid) \ KeySet(argB, uid) # {}
  /\ KeySet(argB, uid) \ KeySet(argA, uid) # {}

\* C9: every distinct key of A appears in exactly one of
\* Set.complement(A, B) and Set.intersection(A, B), neither holds a key
\* that is not in A, and together they hold the items of the set A.
C9_ComplementAndIntersectionPartitionA ==
  ret.op = "Set.intersection" =>
    LET c == process(argA, argB, "complement", uid)
    IN  /\ KeySet(c, uid) \cup KeySet(ret.out, uid) = KeySet(argA, uid)
        /\ KeySet(c, uid) \cap KeySet(ret.out, uid) = {}
        /\ OneItemPerKey(c, uid) /\ OneItemPerKey(ret.out, uid)
        /\ Range(c) \cup Range(ret.out) = Range(items(hist))

\* An intersection call where both parts of A are non-empty and B holds a
\* key that A lacks.
C9_Witness ==
  /\ ret.op = "Set.intersection"
  /\ ret.out # <<>>
  /\ process(argA, argB, "complement", uid) # <<>>
  /\ KeySet(argB, uid) \ KeySet(argA, uid) # {}

\* C10: Set.difference(A, B) holds the same items as
\* Set.union(Set.complement(A, B), Set.complement(B, A)).
C10_DifferenceIsUnionOfComplements ==
  ret.op = "Set.difference" =>
    Range(ret.out) =
      Range(process(process(argA, argB, "complement", uid),
                    process(argB, argA, "complement", uid), "union", uid))

\* A difference call with an item only in A, one only in B and a shared key.
C10_Witness ==
  /\ ret.op = "Set.difference"
  /\ KeySet(argA, uid) \ KeySet(argB, uid) # {}
  /\ KeySet(argB, uid) \ KeySet(argA, uid) # {}
  /\ KeySet(argA, uid) \cap KeySet(argB, uid) # {}

\* C11: wrap(1) and wrap("1") derive different keys and are distinct
\* members of one set: has(wrap(x)) answers true exactly when an entry
\* holds a wrapper of the same type and value, so has(wrap("1")) is false in
\* a set holding only wrap(1); unwrapped 1 and "1" derive the same key,
\* never occupy more than one entry, and has() of either answers for both.
C11_WrapDisambiguates ==
  LET fn == ThisUid(hashFn)
      plain == { Num(1), Str("1") }
      held == { hist[i].item : i \in DOMAIN hist }
  IN /\ KeyOf(fn, wrap(Num(1))) # KeyOf(fn, wrap(Str("1")))
     /\ KeyOf(fn, Num(1)) = KeyOf(fn, Str("1"))
     /\ Cardinality({ i \in DOMAIN hist : hist[i].item \in plain }) <= 1
     /\ \A i, j \in DOMAIN hist : hist[i].item = hist[j].item => i = j
     /\ ret.op = "has" =>
          LET x == ret.args[1]
          IN IF isWrapped(x) THEN ret.flag = (x \in held)
             ELSE ret.flag = (held \cap plain # {})

\* has(wrap("1")) has answered false on a set holding only wrap(1).
C11_Witness ==
  /\ ret.op = "has"
  /\ ret.args = << wrap(Str("1")) >>
  /\ ~ret.flag
  /\ Len(hist) = 1
  /\ hist[1].item = wrap(Num(1))

\* C12: each(callback) visits the entries in insertion order of first-seen
\* key, also when the keys are numeric strings, up to and including the
\* first entry on which the callback answers truthy, and returns the set.
C12_EachInInsertionOrder ==
  ret.op = "each" =>
    LET inserted == [i \in DOMAIN hist |-> hist[i].item]
        hits == { i \in DOMAIN hist : inserted[i] = ret.args[1] }
    IN  /\ ret.flag
        /\ ret.out = IF hits = {} THEN inserted
                     ELSE SubSeq(inserted, 1,
                                 CHOOSE i \in hits : \A k \in hits : i <= k)

\* C13: the table Set.process(A, B) builds has exactly one entry per
\* distinct key of A and B together, with code 1 iff the key occurs only in
\* A, 2 iff only in B, 3 iff in both: a function of the two key sets alone,
\* whatever the repetitions and the order within A or within B.
C13_ProcessCodesByMembership ==
  ret.op = "Set.process" =>
    LET table == ret.out
        inA == KeySet(argA, uid)
        inB == KeySet(argB, uid)
    IN  /\ { table[i].key : i \in DOMAIN table } = inA \cup inB
        /\ \A i, j \in DOMAIN table : table[i].key = table[j].key => i = j
        /\ \A i \in DOMAIN table :
             /\ table[i].freq = 1 <=> table[i].key \in inA \ inB
             /\ table[i].freq = 2 <=> table[i].key \in inB \ inA
             /\ table[i].freq = 3 <=> table[i].key \in inA \cap inB

\* Set.process([1,2,2], [2,3,3]) has built its table: 2 is repeated in A and
\* found in B, 3 is repeated in B alone.
C13_Witness ==
  /\ ret.op = "Set.process"
  /\ argA = << Num(1), Num(2), Num(2) >>
  /\ argB = << Num(2), Num(3), Num(3) >>
  /\ { <<ret.out[i].key, ret.out[i].freq>> : i \in DOMAIN ret.out }
       = { <<"1", 1>>, <<"2", 3>>, <<"3", 2>> }

C15_FirstItemStays ==
  [][ LET fn == ThisUid(hashFn)
          a == ret'.args
      IN  /\ ret'.op = "addItems" =>
               /\ Len(hist') >= Len(hist)
               /\ SubSeq(hist', 1, Len(hist)) = hist
               /\ Keys(hist') = Keys(hist) \cup KeySet(a, fn)
               /\ \A i \in (Len(hist) + 1)..Len(hist') :
                    /\ ~HasKey(hist, hist'[i].key)
                    /\ hist'[i].item = FirstWithKey(a, fn, hist'[i].key)
               /\ \A i, j \in DOMAIN hist' :
                    hist'[i].key = hist'[j].key => i = j
          /\ ret'.op = "removeItems" =>
               hist' = SelectSeq(hist, LAMBDA e : e.key \notin KeySet(a, fn))
          /\ ret'.op = "Set.process" =>
               \A i \in DOMAIN ret'.out :
                 LET e == ret'.out[i]
                 IN  e.item = IF e.key \in KeySet(a[1], uid)
                              THEN FirstWithKey(a[1], uid, e.key)
                              ELSE FirstWithKey(a[2], uid, e.key)
    ]_vars

\* addItems(["1", 0]) on a set holding 1 has left the 1 in place and filed
\* the 0 after it.
C15_Witness ==
  /\ ret.op = "addItems"
  /\ ret.args = << Str("1"), Num(0) >>
  /\ hist = << Entry("1", Num(1), 1), Entry("0", Num(0), 1) >>

\* C16: union, intersection, difference and complement change the set only
\* if mutable() was called on it before, and then leave it with the key set
\* of the array they return; a set never made mutable keeps its contents;
\* the argument Set b is never changed; equals never changes the set,
\* mutable or not.
C16_OnlyMutableSetsChange ==
  [][ /\ ret'.op \in Evaluators =>
           /\ hist' # hist => mutable
           /\ mutable => Keys(hist') = KeySet(ret'.out, ThisUid(hashFn))
           /\ ~mutable => hist' = hist
      /\ ret'.op = "equals" => hist' = hist
      /\ second' = second
    ]_vars

\* The items of a mutable set have been changed by union with a non-empty
\* Set b, and the set holds the keys of the array returned.
C16_Witness ==
  /\ mutable
  /\ ret.op = "union"
  /\ ret.flag
  /\ second.made = "new"
  /\ second.hist # <<>>
  /\ Keys(hist) = KeySet(ret.out, ThisUid(hashFn))

\* C17: clone() leaves the set as it is and returns a set with the same
\* key source and the same key set; afterwards add, remove and clear on the
\* clone work under that key source and leave the original's contents
\* unchanged, and add, remove and clear on the original leave the clone's
\* contents unchanged.
C17_CloneIsIndependent ==
  [][ LET fn == ThisUid(hashFn)
      IN  /\ ret'.op = "clone" =>
               /\ second'.made = "clone"
               /\ second'.hashFn = hashFn
               /\ Keys(second'.hist) = Keys(hist)
               /\ hist' = hist
          /\ ret'.op = "clone.add" =>
               /\ Keys(second'.hist)
                    = Keys(second.hist) \cup KeySet(ret'.args, fn)
               /\ hist' = hist
          /\ ret'.op = "clone.remove" =>
               /\ Keys(second'.hist)
                    = Keys(second.hist) \ KeySet(ret'.args, fn)
               /\ hist' = hist
          /\ ret'.op = "clone.clear" =>
               /\ Keys(second'.hist) = KeySet(ret'.args, fn)
               /\ hist' = hist
          /\ ret'.op \in { "add", "remove", "clear" } => second' = second
    ]_vars

\* An add on the clone of a non-empty set constructed with a key function
\* has given the clone a key the original does not hold.
C17_Witness ==
  /\ hashFn = "byId"
  /\ second.made = "clone"
  /\ ret.op = "clone.add"
  /\ hist # <<>>
  /\ Keys(hist) \subseteq Keys(second.hist)
  /\ Keys(second.hist) # Keys(hist)

====
